---- MODULE Spec2Model ----
(***************************************************************************)
(* Model of standardize-song/process_audio.py: the silence-boundary scan   *)
(* silent_end_ind and the pipeline process_song.                           *)
(*                                                                         *)
(* Audio is modelled at one frame per millisecond (a 1000 Hz mono clip),   *)
(* so len(sound), the millisecond positions of a slice and the frame       *)
(* positions of the underlying data coincide.  A buffer is the sequence of *)
(* its signed samples.                                                     *)
(***************************************************************************)
EXTENDS Integers, Sequences, FiniteSets

VARIABLES
    pc,                  \* position of process_song
    allow_overwrite,     \* arguments of process_song (Python values)
    lufs_normalize,
    silence_threshold,
    iteration_chunk_len,
    silence_padding,
    input_audio,
    output_audio,
    return_stream,       \* line 170
    target_bitrate,      \* line 200, 0 while not measured
    song,                \* the AudioSegment bound to 'song' (or 'sound' in the scan)
    decoded,             \* the buffer line 207 bound to 'song' (history)
    files,               \* files and streams written so far
    trace,               \* stages entered so far, in order (history)
    err,                 \* exception that ended the call, "none" otherwise
    ret,                 \* value returned by process_song
    npass,               \* number of completed trim passes (trim study only)
    once,                \* buffer after the first trim pass (trim study only)
    chunk_size,          \* arguments and locals of a direct silent_end_ind call
    trim_ind,
    spc,
    sresult

vars == << pc, allow_overwrite, lufs_normalize, silence_threshold,
           iteration_chunk_len, silence_padding, input_audio, output_audio,
           return_stream, target_bitrate, song, decoded, files, trace, err,
           ret, npass, once, chunk_size, trim_ind, spc, sresult >>

argVars  == << allow_overwrite, lufs_normalize, silence_threshold, silence_padding >>
scanVars == << chunk_size, trim_ind, spc, sresult >>
passVars == << npass, once >>

(***************************************************************************)
(* Bounds of the model.                                                    *)
(***************************************************************************)
MaxLen      == 5    \* longest buffer (ms) in the trim and scan studies
MaxSongLen  == 2    \* longest decoded buffer (ms) in the pipeline study
MaxSample   == 2    \* largest magnitude of a sample of a source (or of a scanned buffer)
MaxChunk    == 4    \* widest chunk (ms) in the trim and scan studies
FullScale   == 4    \* max_possible_amplitude of the sample format

Min(a, b) == IF a < b THEN a ELSE b
Max(a, b) == IF a > b THEN a ELSE b
Abs(a)    == IF a < 0 THEN -a ELSE a

\* samples are signed, as decoded audio is
Samples == (-MaxSample)..MaxSample

RECURSIVE SeqsUpTo(_, _)
SeqsUpTo(S, n) ==
    IF n = 0 THEN { <<>> }
    ELSE LET shorter == SeqsUpTo(S, n - 1)
         IN  shorter \cup { Append(s, x) : s \in { t \in shorter : Len(t) = n - 1 }, x \in S }

Zeros(n) == [ i \in 1..n |-> 0 ]

(***************************************************************************)
(* Python values: a type tag and, for numbers, a rational num/den and a    *)
(* finiteness flag (a float nan or inf is not finite).                     *)
(***************************************************************************)
PyVal(ty, num, den, finite) == [ ty |-> ty, num |-> num, den |-> den, finite |-> finite ]
PyInt(n)      == PyVal("int", n, 1, TRUE)
PyFloat(n)    == PyVal("float", n, 1, TRUE)
PyNaN         == PyVal("float", 0, 1, FALSE)
PyBool(b)     == PyVal("bool", IF b THEN 1 ELSE 0, 1, TRUE)
PyFrac(p, q)  == PyVal("Fraction", p, q, TRUE)
PyNone        == PyVal("NoneType", 0, 1, TRUE)
PyStr         == PyVal("str", 0, 1, TRUE)

\* isinstance(obj, t): bool is a subclass of int
IsInstance(obj, t) == obj.ty \in t \/ (obj.ty = "bool" /\ "int" \in t)

\* math.isfinite guarded the way the code guards it:
\* not isinstance(x, float) or math.isfinite(x)
FiniteOrNotFloat(x) == x.ty # "float" \/ x.finite

\* comparisons of a number with an integer; every comparison with nan is False
PyLt(x, k) == x.finite /\ x.num < k * x.den
PyLe(x, k) == x.finite /\ x.num <= k * x.den
PyGt(x, k) == x.finite /\ x.num > k * x.den
PyGe(x, k) == x.finite /\ x.num >= k * x.den

\* round() of a non-negative rational p/q: ties go to the even integer
PyRound(p, q) ==
    LET fl  == p \div q
        rem == p % q
    IN  IF 2 * rem < q THEN fl
        ELSE IF 2 * rem > q THEN fl + 1
        ELSE IF fl % 2 = 0 THEN fl ELSE fl + 1

\* math.ceil of a positive rational p/q
PyCeil(p, q) == IF p % q = 0 THEN p \div q ELSE (p \div q) + 1

(***************************************************************************)
(* AudioSegment: slicing, rms and dBFS as the scan uses them.              *)
(***************************************************************************)
\* data[s:e] of a Python sequence: a negative position counts from the end,
\* positions are clamped into 0..len, an inverted range is empty
PySlice(data, s, e) ==
    LET n  == Len(data)
        s1 == IF s < 0 THEN Max(s + n, 0) ELSE Min(s, n)
        e1 == IF e < 0 THEN Max(e + n, 0) ELSE Min(e, n)
    IN  IF s1 >= e1 THEN <<>> ELSE SubSeq(data, s1 + 1, e1)

\* AudioSegment._parse_position: a negative millisecond position is taken
\* from the end of the segment (and may stay negative), then becomes a frame
ParsePosition(sound, val) == IF val < 0 THEN Len(sound) - Abs(val) ELSE val

\* sound[a:b]: both ends are capped at len(sound); frames the data cannot
\* supply are filled with silence, and more than 2 ms of them is refused
\* (TooManyMissingFrames).  The filling frame is cut from the data itself,
\* so an empty slice stays empty.
GetItem(sound, a, b) ==
    LET start   == ParsePosition(sound, Min(a, Len(sound)))
        end     == ParsePosition(sound, Min(b, Len(sound)))
        data    == PySlice(sound, start, end)
        missing == (end - start) - Len(data)
    IN  IF missing > 2
        THEN [ raised |-> TRUE, data |-> <<>> ]
        ELSE [ raised |-> FALSE,
               data   |-> IF missing > 0 /\ data # <<>>
                          THEN data \o Zeros(missing) ELSE data ]

RECURSIVE SumSq(_)
SumSq(data) == IF data = <<>> THEN 0 ELSE Head(data) * Head(data) + SumSq(Tail(data))

ISqrt(x) == CHOOSE r \in 0..x : r * r <= x /\ (r + 1) * (r + 1) > x

\* AudioSegment.rms: the root of the mean square, truncated; 0 for no data
Rms(data) == IF data = <<>> THEN 0 ELSE ISqrt(SumSq(data) \div Len(data))

\* 10^(-k/10) in millionths, for k = 0..9 (at index k + 1)
TenthPowers == << 1000000, 794328, 630957, 501187, 398107,
                  316228, 251189, 199526, 158489, 125893 >>

\* chunk.dBFS < silence_threshold, for a finite threshold of a whole number
\* of dB, -(10q + k): dBFS is -infinity when rms is 0, otherwise
\* 20*log10(rms / max_possible_amplitude), which is below the threshold
\* exactly when rms^2 * 10^q < max_possible_amplitude^2 * 10^(-k/10)
Below(data, thr) ==
    LET r == Rms(data)
        q == (-thr.num) \div 10
        k == (-thr.num) % 10
    IN  r = 0 \/ r * r * (10 ^ q) < PyCeil(FullScale * FullScale * TenthPowers[k + 1], 1000000)

RECURSIVE Peak(_)
\* AudioSegment.max: the largest sample magnitude, 0 for no data
Peak(data) == IF data = <<>> THEN 0 ELSE Max(Abs(Head(data)), Peak(Tail(data)))

\* .normalize() of line 207 (headroom 0.1 dB): silence is returned as it is;
\* otherwise every sample is multiplied by
\* max_possible_amplitude * 10^(-0.1/20) / peak, rounded towards minus
\* infinity (audioop.mul) and clipped to the sample range, so a positive
\* peak lands just below full scale and a negative sample gains magnitude.
\* 10^(-0.005) is taken as 0.988553.
Normalized(data) ==
    IF Peak(data) = 0 THEN data
    ELSE [ i \in 1..Len(data) |->
             Max(-FullScale, Min(FullScale - 1,
                 (data[i] * FullScale * 988553) \div (Peak(data) * 1000000))) ]

\* the buffers line 207 can bind to 'song' from sources of up to n ms
DecodedSongs(n) == { Normalized(raw) : raw \in SeqsUpTo(Samples, n) }

\* the default of the parameter silence_threshold
DefaultThreshold == PyFloat(-50)

\* argument checking of silent_end_ind: the exception raised, or "none"
ScanArgError(thr, c) ==
    IF ~IsInstance(thr, {"int", "float"}) THEN "TypeError"
    ELSE IF ~FiniteOrNotFloat(thr) THEN "ValueError"
    ELSE IF ~PyLt(thr, 0) THEN "ValueError"
    ELSE IF ~IsInstance(c, {"int"}) THEN "TypeError"
    ELSE IF c.num = 0 THEN "ValueError"
    ELSE "none"

\* the chunk the loop condition measures at position t
ScanChunk(sound, c, t) ==
    IF c > 0 THEN GetItem(sound, t, t + c) ELSE GetItem(sound, t + c, t)

\* the second conjunct of the loop condition
ScanInside(sound, c, t) == IF c > 0 THEN t < Len(sound) ELSE t > 0

\* variant: a backward scan returns the start of the chunk it stopped on
ScanClamp_ChunkStart(sound, c, t) ==
    IF c > 0 THEN Min(t, Len(sound)) ELSE Max(t + c, 0)

\* the value returned once the loop has ended at position t
ScanClamp(sound, c, t) == IF c > 0 THEN Min(t, Len(sound)) ELSE Max(t, 0)

RECURSIVE ScanFrom(_, _, _, _)
ScanFrom(sound, thr, c, t) ==
    LET chunk == ScanChunk(sound, c, t)
    IN  IF chunk.raised THEN [ exc |-> "TooManyMissingFrames", ind |-> t ]
        ELSE IF Below(chunk.data, thr) /\ ScanInside(sound, c, t)
        THEN ScanFrom(sound, thr, c, t + c)
        ELSE [ exc |-> "none", ind |-> ScanClamp(sound, c, t) ]

\* silent_end_ind(sound, silence_threshold, chunk_size) with Python values
\* for the threshold and the chunk size
silent_end_ind(sound, thr, c) ==
    IF ScanArgError(thr, c) # "none"
    THEN [ exc |-> ScanArgError(thr, c), ind |-> 0 ]
    ELSE ScanFrom(sound, thr, c.num, IF c.num > 0 THEN 0 ELSE Len(sound))

\* the keyword arguments process_song passes: a None threshold is dropped,
\* so the parameter default applies
SilentEndIndThreshold(thr) == IF thr = PyNone THEN DefaultThreshold ELSE thr

(***************************************************************************)
(* process_song: argument values                                           *)
(***************************************************************************)
\* an input or output designation: a Path, a str naming a path, an open
\* stream or None; loc is what Path.resolve() gives
Audio(ty, name, loc) == [ ty |-> ty, name |-> name, loc |-> loc ]
NoAudio     == Audio("NoneType", "", "")
FreshStream == Audio("BytesIO", "fresh", "")

IsIOBase(a) == a.ty = "BytesIO"
AsPath(a)   == IF a.ty = "str" THEN Audio("Path", a.name, a.loc) ELSE a

AllowOverwrites   == { PyBool(TRUE), PyBool(FALSE), PyInt(1) }
LufsNormalizes    == { PyFloat(-16), PyInt(0), PyInt(3), PyNaN, PyStr }
SilenceThresholds == { PyNone, PyInt(-10), PyInt(0), PyNaN, PyStr }
IterationChunkLens == { PyInt(1), PyInt(3), PyFrac(1, 2), PyFrac(3, 2),
                        PyFrac(-1, 2), PyInt(0), PyFloat(2) }
SilencePaddings   == { PyInt(0), PyInt(1), PyInt(-1), PyFloat(1) }
InputAudios       == { Audio("Path", "a.flac", "/m/a.flac"),
                       Audio("str", "a.flac", "/m/a.flac"),
                       Audio("BytesIO", "in", "") }
OutputAudios      == { NoAudio,
                       Audio("Path", "../m/a.flac", "/m/a.flac"),
                       Audio("str", "b.flac", "/m/b.flac"),
                       Audio("BytesIO", "out", "") }

\* max_bitrate as the bitrate statistics report it, a rational <<p, q>>
MaxBitrates == { <<511, 2>>, <<256, 1>> }

\* variant: the range check of lufs_normalize (line 139) is missing
ConfigError_NoLufsRange(ow, lufs, thr, chunk, pad) ==
    IF ~IsInstance(ow, {"bool"}) THEN "TypeError"
    ELSE IF ~IsInstance(lufs, {"int", "float"}) THEN "TypeError"
    ELSE IF ~FiniteOrNotFloat(lufs) THEN "ValueError"
    ELSE IF thr # PyNone /\ ~IsInstance(thr, {"int", "float"}) THEN "TypeError"
    ELSE IF thr # PyNone /\ ~FiniteOrNotFloat(thr) THEN "ValueError"
    ELSE IF thr # PyNone /\ ~PyLt(thr, 0) THEN "ValueError"
    ELSE IF ~IsInstance(chunk, {"int", "Fraction"}) THEN "TypeError"
    ELSE IF ~(chunk.ty # "Fraction" \/ PyLt(chunk, 1)) THEN "ValueError"
    ELSE IF ~PyGt(chunk, 0) THEN "ValueError"
    ELSE IF ~IsInstance(pad, {"int"}) THEN "TypeError"
    ELSE IF ~PyGe(pad, 0) THEN "ValueError"
    ELSE "none"

\* lines 130-165: the first failing check, in the order of the code
ConfigError(ow, lufs, thr, chunk, pad) ==
    IF ~IsInstance(ow, {"bool"}) THEN "TypeError"
    ELSE IF ~IsInstance(lufs, {"int", "float"}) THEN "TypeError"
    ELSE IF ~FiniteOrNotFloat(lufs) THEN "ValueError"
    ELSE IF ~PyLe(lufs, 0) THEN "ValueError"
    ELSE IF thr # PyNone /\ ~IsInstance(thr, {"int", "float"}) THEN "TypeError"
    ELSE IF thr # PyNone /\ ~FiniteOrNotFloat(thr) THEN "ValueError"
    ELSE IF thr # PyNone /\ ~PyLt(thr, 0) THEN "ValueError"
    ELSE IF ~IsInstance(chunk, {"int", "Fraction"}) THEN "TypeError"
    ELSE IF ~(chunk.ty # "Fraction" \/ PyLt(chunk, 1)) THEN "ValueError"
    ELSE IF ~PyGt(chunk, 0) THEN "ValueError"
    ELSE IF ~IsInstance(pad, {"int"}) THEN "TypeError"
    ELSE IF ~PyGe(pad, 0) THEN "ValueError"
    ELSE "none"

\* line 170
ReturnStream(inp, out) == out = NoAudio /\ IsIOBase(inp)

\* line 173: both sides are paths
BothPaths(inp, out) == ~IsIOBase(out) /\ ~IsIOBase(inp)

\* lines 175-176
DefaultedOutput(inp, out) == IF out = NoAudio THEN inp ELSE out

\* variant: the paths are compared as given, without resolve()
OverwriteAllowed_Unresolved(ow, inp, out) == ow.num = 1 \/ inp.name # out.name

\* lines 184-185
OverwriteAllowed(ow, inp, out) == ow.num = 1 \/ inp.loc # out.loc

\* line 212: a Fraction is resolved against the decoded length, once
ResolvedChunkLen(chunk, sound) ==
    IF chunk.ty = "Fraction"
    THEN PyInt(Max(PyRound(chunk.num * Len(sound), chunk.den), 1))
    ELSE chunk

\* variant: the leading slice is taken whatever the scan returned
TrimmedLead_Unguarded(sound, ind) == GetItem(sound, ind, Len(sound)).data

\* lines 225-229 and 242-246: the slice is skipped at 0 and at len(song)
TrimmedLead(sound, ind) ==
    IF ind \notin {0, Len(sound)} THEN GetItem(sound, ind, Len(sound)).data ELSE sound

TrimmedTrail(sound, ind) ==
    IF ind \notin {0, Len(sound)} THEN GetItem(sound, 0, ind).data ELSE sound

\* lines 256-257
Padded(sound, pad) == Zeros(pad) \o sound \o Zeros(pad)

\* line 265: the compressor's output is opaque, only its length is known
Compressed(sound) == [ i \in 1..Len(sound) |-> "dsp" ]

\* the files process_song can touch
FileOf(a)         == [ loc |-> a.loc, kind |-> "audio" ]
SidecarOf(a, tag) == [ loc |-> a.loc, kind |-> tag ]

(***************************************************************************)
(* process_song, one action per stage                                      *)
(***************************************************************************)
Fail(e) == pc' = "failed" /\ err' = e
Goto(p) == pc' = p /\ err' = err
Enter(stage) == trace' = Append(trace, stage)

\* lines 128-165
Validate ==
    /\ pc = "validate"
    /\ Enter("validate")
    /\ LET e == ConfigError(allow_overwrite, lufs_normalize, silence_threshold,
                            iteration_chunk_len, silence_padding)
       IN  IF e # "none" THEN Fail(e) ELSE Goto("resolve")
    /\ UNCHANGED << argVars, iteration_chunk_len, input_audio, output_audio,
                    return_stream, target_bitrate, song, decoded, files, ret,
                    passVars, scanVars >>

\* lines 170-189
ResolveIO ==
    /\ pc = "resolve"
    /\ Enter("resolve")
    /\ return_stream' = ReturnStream(input_audio, output_audio)
    /\ LET out1 == IF ReturnStream(input_audio, output_audio)
                   THEN FreshStream ELSE output_audio
       IN  IF BothPaths(input_audio, out1)
           THEN /\ input_audio'  = AsPath(input_audio)
                /\ output_audio' = AsPath(DefaultedOutput(input_audio, out1))
                /\ IF OverwriteAllowed(allow_overwrite, input_audio,
                                       DefaultedOutput(input_audio, out1))
                   THEN Goto("bitrate") ELSE Fail("ValueError")
           ELSE /\ input_audio'  = input_audio
                /\ output_audio' = out1
                /\ Goto("bitrate")
    /\ UNCHANGED << argVars, iteration_chunk_len, target_bitrate, song, decoded,
                    files, ret, passVars, scanVars >>

\* lines 193-201: the bitrate statistics of the source, or their failure
MeasureBitrate ==
    /\ pc = "bitrate"
    /\ Enter("bitrate")
    /\ \/ \E mb \in MaxBitrates :
            /\ target_bitrate' = PyCeil(mb[1], mb[2])
            /\ Goto("decode")
       \/ /\ Fail("BitrateError")
          /\ UNCHANGED target_bitrate
    /\ UNCHANGED << argVars, iteration_chunk_len, input_audio, output_audio,
                    return_stream, song, decoded, files, ret, passVars, scanVars >>

\* lines 205-216: decode and peak-normalize, then resolve the chunk width
Decode ==
    /\ pc = "decode"
    /\ Enter("decode")
    /\ \/ \E s \in DecodedSongs(MaxSongLen) :
            /\ song' = s
            /\ decoded' = s
            /\ iteration_chunk_len' = ResolvedChunkLen(iteration_chunk_len, s)
            /\ Goto("trim_lead")
       \/ /\ Fail("DecodeError")
          /\ UNCHANGED << song, decoded, iteration_chunk_len >>
    /\ UNCHANGED << argVars, input_audio, output_audio, return_stream,
                    target_bitrate, files, ret, passVars, scanVars >>

\* lines 219-233
TrimLead ==
    /\ pc = "trim_lead"
    /\ Enter("trim_lead")
    /\ LET r == silent_end_ind(song, SilentEndIndThreshold(silence_threshold),
                               iteration_chunk_len)
       IN  IF r.exc # "none"
           THEN Fail(r.exc) /\ UNCHANGED song
           ELSE song' = TrimmedLead(song, r.ind) /\ Goto("trim_trail")
    /\ UNCHANGED << argVars, iteration_chunk_len, input_audio, output_audio,
                    return_stream, target_bitrate, decoded, files, ret,
                    passVars, scanVars >>

\* lines 236-250
TrimTrail ==
    /\ pc = "trim_trail"
    /\ Enter("trim_trail")
    /\ LET r == silent_end_ind(song, SilentEndIndThreshold(silence_threshold),
                               PyInt(-iteration_chunk_len.num))
       IN  IF r.exc # "none"
           THEN Fail(r.exc) /\ UNCHANGED song
           ELSE song' = TrimmedTrail(song, r.ind) /\ Goto("pad")
    /\ UNCHANGED << argVars, iteration_chunk_len, input_audio, output_audio,
                    return_stream, target_bitrate, decoded, files, ret,
                    passVars, scanVars >>

\* variant: padding hands over to the wav export, compression is left out
Pad_SkipsCompress ==
    /\ pc = "pad"
    /\ Enter("pad")
    /\ song' = Padded(song, silence_padding.num)
    /\ Goto("export_wav")
    /\ UNCHANGED << argVars, iteration_chunk_len, input_audio, output_audio,
                    return_stream, target_bitrate, decoded, files, ret,
                    passVars, scanVars >>

\* lines 256-259
Pad ==
    /\ pc = "pad"
    /\ Enter("pad")
    /\ song' = Padded(song, silence_padding.num)
    /\ Goto("compress")
    /\ UNCHANGED << argVars, iteration_chunk_len, input_audio, output_audio,
                    return_stream, target_bitrate, decoded, files, ret,
                    passVars, scanVars >>

\* lines 261-267
Compress ==
    /\ pc = "compress"
    /\ Enter("compress")
    /\ song' = Compressed(song)
    /\ Goto("export_wav")
    /\ UNCHANGED << argVars, iteration_chunk_len, input_audio, output_audio,
                    return_stream, target_bitrate, decoded, files, ret,
                    passVars, scanVars >>

\* lines 270-280: wav export to memory, the copy written beside the input
\* (Path() of a stream is a TypeError), then the samples are read back
ExportWav ==
    /\ pc = "export_wav"
    /\ Enter("export_wav")
    /\ IF IsIOBase(input_audio)
       THEN Fail("TypeError") /\ UNCHANGED files
       ELSE files' = files \cup { SidecarOf(input_audio, "pydub") } /\ Goto("subtype")
    /\ UNCHANGED << argVars, iteration_chunk_len, input_audio, output_audio,
                    return_stream, target_bitrate, song, decoded, ret,
                    passVars, scanVars >>

\* line 282: the input is opened a second time for its sample subtype
ReadSubtype ==
    /\ pc = "subtype"
    /\ Enter("subtype")
    /\ Goto("measure") \/ Fail("DecodeError")
    /\ UNCHANGED << argVars, iteration_chunk_len, input_audio, output_audio,
                    return_stream, target_bitrate, song, decoded, files, ret,
                    passVars, scanVars >>

\* lines 285-287: integrated loudness, or the meter's failure
Measure ==
    /\ pc = "measure"
    /\ Enter("measure")
    /\ Goto("normalize") \/ Fail("MeteringError")
    /\ UNCHANGED << argVars, iteration_chunk_len, input_audio, output_audio,
                    return_stream, target_bitrate, song, decoded, files, ret,
                    passVars, scanVars >>

\* lines 289-290
Normalize ==
    /\ pc = "normalize"
    /\ Enter("normalize")
    /\ Goto("reimport")
    /\ UNCHANGED << argVars, iteration_chunk_len, input_audio, output_audio,
                    return_stream, target_bitrate, song, decoded, files, ret,
                    passVars, scanVars >>

\* lines 293-306: wav written to memory, copied beside the input, decoded
Reimport ==
    /\ pc = "reimport"
    /\ Enter("reimport")
    /\ files' = files \cup { SidecarOf(input_audio, "sf") }
    /\ Goto("encode")
    /\ UNCHANGED << argVars, iteration_chunk_len, input_audio, output_audio,
                    return_stream, target_bitrate, song, decoded, ret,
                    passVars, scanVars >>

\* lines 308-311: a stream has no suffix (AttributeError); the encoder may fail
Encode ==
    /\ pc = "encode"
    /\ Enter("encode")
    /\ IF IsIOBase(output_audio)
       THEN Fail("AttributeError") /\ UNCHANGED files
       ELSE \/ files' = files \cup { FileOf(output_audio) } /\ Goto("return")
            \/ Fail("EncodeError") /\ UNCHANGED files
    /\ UNCHANGED << argVars, iteration_chunk_len, input_audio, output_audio,
                    return_stream, target_bitrate, song, decoded, ret,
                    passVars, scanVars >>

\* line 316
Return ==
    /\ pc = "return"
    /\ pc' = "done"
    /\ ret' = IF return_stream THEN output_audio ELSE NoAudio
    /\ UNCHANGED << argVars, iteration_chunk_len, input_audio, output_audio,
                    return_stream, target_bitrate, song, decoded, files, trace,
                    err, passVars, scanVars >>

Init ==
    /\ pc = "validate"
    /\ allow_overwrite \in AllowOverwrites
    /\ lufs_normalize \in LufsNormalizes
    /\ silence_threshold \in SilenceThresholds
    /\ iteration_chunk_len \in IterationChunkLens
    /\ silence_padding \in SilencePaddings
    /\ input_audio \in InputAudios
    /\ output_audio \in OutputAudios
    /\ return_stream = FALSE
    /\ target_bitrate = 0
    /\ song = <<>>
    /\ decoded = <<>>
    /\ files = {}
    /\ trace = <<>>
    /\ err = "none"
    /\ ret = NoAudio
    /\ npass = 0
    /\ once = <<>>
    /\ chunk_size = PyInt(1)
    /\ trim_ind = 0
    /\ spc = "off"
    /\ sresult = 0

Next ==
    \/ Validate
    \/ ResolveIO
    \/ MeasureBitrate
    \/ Decode
    \/ TrimLead
    \/ TrimTrail
    \/ Pad
    \/ Compress
    \/ ExportWav
    \/ ReadSubtype
    \/ Measure
    \/ Normalize
    \/ Reimport
    \/ Encode
    \/ Return

Spec == Init /\ [][Next]_vars

(***************************************************************************)
(* The trim step on its own (lines 219-250), applied to decoded and        *)
(* peak-normalized buffers of up to MaxLen ms with every resolved chunk    *)
(* width up to MaxChunk, and applied a second time to its own output.      *)
(***************************************************************************)
TrimThresholds == { PyNone, PyInt(-10), PyInt(-3) }
TrimChunkLens  == { PyInt(c) : c \in 1..MaxChunk }

InitTrim ==
    /\ pc = "trim_lead"
    /\ allow_overwrite = PyBool(FALSE)
    /\ lufs_normalize = PyFloat(-16)
    /\ silence_threshold \in TrimThresholds
    /\ iteration_chunk_len \in TrimChunkLens
    /\ silence_padding = PyInt(0)
    /\ input_audio = Audio("Path", "a.flac", "/m/a.flac")
    /\ output_audio = Audio("Path", "b.flac", "/m/b.flac")
    /\ return_stream = FALSE
    /\ target_bitrate = 256
    /\ song \in DecodedSongs(MaxLen)
    /\ decoded = song
    /\ files = {}
    /\ trace = << "validate", "resolve", "bitrate", "decode" >>
    /\ err = "none"
    /\ ret = NoAudio
    /\ npass = 0
    /\ once = <<>>
    /\ chunk_size = PyInt(1)
    /\ trim_ind = 0
    /\ spc = "off"
    /\ sresult = 0

\* the output of the first pass is handed to the trim step again
Retrim ==
    /\ pc = "pad"
    /\ npass = 0
    /\ npass' = 1
    /\ once' = song
    /\ pc' = "trim_lead"
    /\ UNCHANGED << argVars, iteration_chunk_len, input_audio, output_audio,
                    return_stream, target_bitrate, song, decoded, files, trace,
                    err, ret, scanVars >>

NextTrim ==
    \/ TrimLead
    \/ TrimTrail
    \/ Retrim

TrimSpec == InitTrim /\ [][NextTrim]_vars

(***************************************************************************)
(* silent_end_ind called directly (lines 66-110), one action per           *)
(* evaluation of the loop condition.                                       *)
(***************************************************************************)
ScanThresholds == { PyFloat(-50), PyInt(-10), PyInt(0), PyNaN }
ScanChunkSizes == { PyInt(c) : c \in (-MaxChunk)..MaxChunk } \cup { PyFloat(1) }

InitScan ==
    /\ pc = "off"
    /\ allow_overwrite = PyBool(FALSE)
    /\ lufs_normalize = PyFloat(-16)
    /\ silence_threshold \in ScanThresholds
    /\ iteration_chunk_len = PyInt(1)
    /\ silence_padding = PyInt(0)
    /\ input_audio = NoAudio
    /\ output_audio = NoAudio
    /\ return_stream = FALSE
    /\ target_bitrate = 0
    /\ song \in SeqsUpTo(Samples, MaxLen)
    /\ decoded = song
    /\ files = {}
    /\ trace = <<>>
    /\ err = "none"
    /\ ret = NoAudio
    /\ npass = 0
    /\ once = <<>>
    /\ chunk_size \in ScanChunkSizes
    /\ trim_ind = 0
    /\ spc = "call"
    /\ sresult = 0

scanFrame == << pc, argVars, iteration_chunk_len, input_audio, output_audio,
                return_stream, target_bitrate, song, decoded, files, trace,
                ret, passVars, chunk_size >>

\* lines 72-94 and 103: argument checking, then the start position
ScanCall ==
    /\ spc = "call"
    /\ LET e == ScanArgError(silence_threshold, chunk_size)
       IN  IF e # "none"
           THEN spc' = "raised" /\ err' = e /\ UNCHANGED trim_ind
           ELSE /\ spc' = "loop"
                /\ err' = err
                /\ trim_ind' = IF chunk_size.num > 0 THEN 0 ELSE Len(song)
    /\ UNCHANGED << scanFrame, sresult >>

\* lines 95-99 and 104-108: the condition holds, the position moves on
ScanStep ==
    /\ spc = "loop"
    /\ LET chunk == ScanChunk(song, chunk_size.num, trim_ind)
       IN  /\ ~chunk.raised
           /\ Below(chunk.data, silence_threshold)
           /\ ScanInside(song, chunk_size.num, trim_ind)
    /\ trim_ind' = trim_ind + chunk_size.num
    /\ UNCHANGED << scanFrame, spc, sresult, err >>

\* lines 101 and 110: the condition fails, the clamped position is returned
ScanReturn ==
    /\ spc = "loop"
    /\ LET chunk == ScanChunk(song, chunk_size.num, trim_ind)
       IN  /\ ~chunk.raised
           /\ ~(Below(chunk.data, silence_threshold)
                /\ ScanInside(song, chunk_size.num, trim_ind))
    /\ sresult' = ScanClamp(song, chunk_size.num, trim_ind)
    /\ spc' = "returned"
    /\ UNCHANGED << scanFrame, trim_ind, err >>

\* lines 96 and 105: the slice measured first in the condition is refused
ScanRaise ==
    /\ spc = "loop"
    /\ ScanChunk(song, chunk_size.num, trim_ind).raised
    /\ spc' = "raised"
    /\ err' = "TooManyMissingFrames"
    /\ UNCHANGED << scanFrame, trim_ind, sresult >>

NextScan ==
    \/ ScanCall
    \/ ScanStep
    \/ ScanReturn
    \/ ScanRaise

ScanSpec == InitScan /\ [][NextScan]_vars

\* the stepwise scan and the operator the trim step uses agree
ScanAgrees ==
    LET r == silent_end_ind(song, silence_threshold, chunk_size)
    IN  /\ spc = "returned" => r = [ exc |-> "none", ind |-> sresult ]
        /\ spc = "raised" => r.exc = err

(***************************************************************************)
(* Properties                                                              *)
(***************************************************************************)
Events == { trace[i] : i \in 1..Len(trace) }

\* ---------------------------------------------------------------- C1
\* C1: nothing is written before the whole in-memory chain has succeeded: a
\* failed run leaves no file created or modified, and a successful run has
\* written the output audio and nothing else
C1_NoPartialWrites ==
    /\ pc \notin {"return", "done"} => files = {}
    /\ pc \in {"return", "done"} => files = { FileOf(output_audio) }

\* ---------------------------------------------------------------- C2
\* what ends a run from outside the code of process_song and of the scan
ExternalFailures == { "BitrateError", "DecodeError", "MeteringError",
                      "EncodeError", "TooManyMissingFrames" }

\* C2: a call with valid configuration, a stream as input and no output runs
\* through encode and returns the fresh stream (only a failing collaborator
\* can end it early); every other call that returns, returns nothing
C2_StreamRunReturnsStream ==
    /\ (return_stream /\ pc = "failed") => err \in ExternalFailures
    /\ (return_stream /\ pc = "done") => ret = FreshStream
    /\ (~return_stream /\ pc = "done") => ret = NoAudio

\* ---------------------------------------------------------------- C3
\* the configuration the claim calls valid, field by field
ValidAllowOverwrite == allow_overwrite.ty = "bool"
ValidLufs ==
    /\ lufs_normalize.ty \in {"int", "float", "bool"}
    /\ lufs_normalize.finite
    /\ lufs_normalize.num <= 0
ValidThreshold ==
    \/ silence_threshold.ty = "NoneType"
    \/ /\ silence_threshold.ty \in {"int", "float", "bool"}
       /\ silence_threshold.finite
       /\ silence_threshold.num < 0
ValidChunkLen ==
    \/ iteration_chunk_len.ty \in {"int", "bool"} /\ iteration_chunk_len.num >= 1
    \/ /\ iteration_chunk_len.ty = "Fraction"
       /\ 0 < iteration_chunk_len.num
       /\ iteration_chunk_len.num < iteration_chunk_len.den
ValidPadding == silence_padding.ty \in {"int", "bool"} /\ silence_padding.num >= 0
ValidConfig ==
    ValidAllowOverwrite /\ ValidLufs /\ ValidThreshold /\ ValidChunkLen /\ ValidPadding

\* C3: with any field invalid the call fails with a configuration error
\* and no bitrate measurement, decode, encode or write has occurred
C3_InvalidConfigRejectedFirst ==
    ~ValidConfig =>
        /\ pc \in {"validate", "failed"}
        /\ pc = "failed" => (err \in {"TypeError", "ValueError"} /\ trace = << "validate" >>)
        /\ Events \subseteq {"validate"}
        /\ target_bitrate = 0
        /\ song = <<>>
        /\ files = {}

C3_Witness ==
    /\ pc = "failed"
    /\ lufs_normalize = PyInt(3)
    /\ err = "ValueError"
    /\ ~("decode" \in Events)

\* ---------------------------------------------------------------- C4
\* input and output are both paths (the output possibly omitted) and resolve
\* to the same location
SameLocation ==
    /\ ~IsIOBase(input_audio)
    /\ ~IsIOBase(output_audio)
    /\ (output_audio = NoAudio \/ output_audio.loc = input_audio.loc)

RefusedByOverwriteCheck ==
    pc = "failed" /\ Len(trace) > 0 /\ trace[Len(trace)] = "resolve"

\* C4: same location without permission is refused before any bitrate
\* measurement, decode or write; the check refuses nothing else
C4_OverwriteRefusedFirst ==
    /\ (SameLocation /\ allow_overwrite = PyBool(FALSE)) =>
          /\ pc \in {"validate", "resolve", "failed"}
          /\ Events \subseteq {"validate", "resolve"}
          /\ target_bitrate = 0
          /\ song = <<>>
          /\ files = {}
    /\ RefusedByOverwriteCheck =>
          (SameLocation /\ allow_overwrite = PyBool(FALSE) /\ err = "ValueError")

C4_Witness ==
    /\ RefusedByOverwriteCheck
    /\ output_audio.name = "../m/a.flac"
    /\ input_audio.name = "a.flac"
    /\ files = {}

\* ---------------------------------------------------------------- C5
ScanArgsValid ==
    /\ silence_threshold.ty \in {"int", "float"}
    /\ silence_threshold.finite
    /\ silence_threshold.num < 0
    /\ chunk_size.ty = "int"
    /\ chunk_size.num # 0

\* C5: for a finite negative threshold and a non-zero integer chunk size the
\* scan raises nothing, keeps its position within one chunk of the buffer
\* (so it ends) and returns an index in [0, length]; stated here for the
\* non-empty buffers the claim covers
C5_ScanReturnsIndex ==
    (ScanArgsValid /\ Len(song) >= 1) =>
        /\ spc # "raised"
        /\ spc = "loop" => trim_ind \in (-Abs(chunk_size.num) + 1)..(Len(song) + Abs(chunk_size.num) - 1)
        /\ spc = "returned" => sresult \in 0..Len(song)

\* ---------------------------------------------------------------- C6
TrimThreshold == SilentEndIndThreshold(silence_threshold)

\* every contiguous piece of the decoded buffer measures below the threshold
EntirelySilent ==
    \A a \in 0..Len(decoded) : \A b \in a..Len(decoded) :
        Below(PySlice(decoded, a, b), TrimThreshold)

\* C6: the trim step leaves an entirely silent (non-empty) buffer unchanged,
\* whatever the chunk width
C6_SilentBufferUnchanged ==
    (Len(decoded) >= 1 /\ EntirelySilent /\ npass = 0
        /\ pc \in {"trim_trail", "pad", "failed"}) =>
        (pc # "failed" /\ song = decoded)

\* ---------------------------------------------------------------- C7
\* C7 as claimed: trimming the output of the trim step again, with the same
\* threshold and the same resolved chunk width, succeeds and changes nothing
C7_TrimIdempotent ==
    (npass = 1 /\ pc \in {"pad", "failed"}) => (pc = "pad" /\ song = once)

\* the first chunk of the first pass's output measures at or above the
\* threshold: real audio content begins within the first chunk
ContentLeads ==
    ~Below(GetItem(once, 0, iteration_chunk_len.num).data, TrimThreshold)

\* C7 amended: once real audio content begins within the first chunk of the
\* first pass's output, a second pass succeeds and changes nothing
C7_TrimIdempotentOnceContentLeads ==
    (npass = 1 /\ ContentLeads /\ pc \in {"trim_trail", "pad", "failed"}) =>
        (pc # "failed" /\ song = once)

C7_Witness ==
    /\ npass = 1
    /\ pc = "pad"
    /\ ContentLeads
    /\ song = once
    /\ Len(once) + 2 <= Len(decoded)

\* ---------------------------------------------------------------- C8
StageOrder == << "validate", "decode", "trim_lead", "trim_trail", "pad",
                 "compress", "measure", "normalize", "encode" >>

IsStage(e) == \E i \in 1..Len(StageOrder) : StageOrder[i] = e

\* C8: on a run that reaches Encode the stages occur in the linear order
\* Validate, Decode, Trim (leading, trailing), Pad, Compress, Normalize
\* (measure, apply), Encode, nothing is entered twice, and the source
\* bitrate has been measured before Encode starts
C8_LinearStages ==
    "encode" \in Events =>
        /\ SelectSeq(trace, IsStage) = StageOrder
        /\ \A i, j \in 1..Len(trace) : i < j => trace[i] # trace[j]
        /\ \E i, j \in 1..Len(trace) :
              i < j /\ trace[i] = "bitrate" /\ trace[j] = "encode"
        /\ target_bitrate > 0

C8_Witness == pc = "done" /\ "encode" \in Events /\ files # {}

\* ---------------------------------------------------------------- C9
RECURSIVE LeadingZeros(_)
LeadingZeros(s) ==
    IF s = <<>> \/ Head(s) # 0 THEN 0 ELSE 1 + LeadingZeros(Tail(s))

Reverse(s) == [ i \in 1..Len(s) |-> s[Len(s) + 1 - i] ]

TrailingZeros(s) == LeadingZeros(Reverse(s))

LoudCount(s) == Cardinality({ i \in 1..Len(s) : s[i] # 0 })

\* silence, then at least 1 ms of one loud level, then silence, where a
\* chunk holding a single loud millisecond already measures at or above the
\* threshold
SilenceLoudSilence ==
    /\ LoudCount(decoded) >= 1
    /\ \A i, j \in 1..Len(decoded) :
          (decoded[i] # 0 /\ decoded[j] # 0) =>
              /\ decoded[i] = decoded[j]
              /\ \A k \in i..j : decoded[k] # 0
    /\ \A i \in 1..Len(decoded) :
          decoded[i] # 0 =>
              ~Below(<< decoded[i] >> \o Zeros(iteration_chunk_len.num - 1), TrimThreshold)

\* C9: on such a buffer the trim step removes no loud millisecond and
\* leaves less than one chunk width of silence at either edge
C9_TrimWithinOneChunk ==
    (SilenceLoudSilence /\ npass = 0 /\ pc \in {"pad", "failed"}) =>
        /\ pc = "pad"
        /\ LoudCount(song) = LoudCount(decoded)
        /\ LeadingZeros(song) < iteration_chunk_len.num
        /\ TrailingZeros(song) < iteration_chunk_len.num

\* ---------------------------------------------------------------- C10
\* C10: a non-empty decoded buffer is never trimmed to zero length, neither
\* by the leading slice nor by the trailing slice
C10_NeverTrimmedToNothing ==
    (Len(decoded) >= 1 /\ pc \in {"trim_trail", "pad"}) => Len(song) >= 1

\* the all-silent case: both scans end at the opposite boundary and both
\* slices are skipped
C10_Witness ==
    /\ pc = "pad"
    /\ npass = 0
    /\ EntirelySilent
    /\ Len(decoded) >= 2
    /\ song = decoded

====
